---------------------------- MODULE Spec2Model ----------------------------
(***************************************************************************)
(* StatisticsGen.__init__ (tfx/components/statistics_gen/component.py).    *)
(*                                                                         *)
(* The constructor is modelled statement by statement.  Python objects     *)
(* live in three heaps: list objects (lists), artifacts (artifacts) and    *)
(* channels (channels); a reference is an index into its heap and 0 is     *)
(* None.  An artifact's split_names attribute holds a reference to a list  *)
(* object, so that binding a name to it (line 93) and assigning it to      *)
(* another artifact (line 98) alias one list, as Python does.  An optional *)
(* value that is not a reference is <<>> for None and <<v>> for v.         *)
(***************************************************************************)
EXTENDS Integers, Sequences, FiniteSets, TLC

VARIABLES
    pc,                  \* position of the constructor
    args,                \* the arguments as passed by the caller
    examples,            \* local `examples` (rebound at line 90)
    output,              \* local `output` (rebound at line 99)
    statistics_artifact, \* local `statistics_artifact` (line 92)
    split_names,         \* local `split_names`: a list reference (line 93)
    it,                  \* index held by the list iterator of line 95
    warnings,            \* absl warnings logged by the running construction
    error,               \* exception that left the constructor, "" if none
    component,           \* <<>> or <<[spec, instance_name]>> once registered
    lists,               \* heap of list objects
    artifacts,           \* heap of artifacts
    channels,            \* heap of channels
    pre,                 \* the heaps as they were when the constructor began
    built,               \* record of the constructions that returned
    ncalls               \* constructions started

vars == <<pc, args, examples, output, statistics_artifact, split_names, it,
          warnings, error, component, lists, artifacts, channels, pre,
          built, ncalls>>

---------------------------------------------------------------------------
(* Bounds of the exploration *)

MaxLen == 3

MaxCalls == 2

Names == {"train", "eval", "test"}

ExcludeNames == Names \cup {"holdout"}

SeqsUpTo(S, n) == UNION {[1..k -> S] : k \in 0..n}

SplitSeqs == SeqsUpTo(Names, MaxLen)

\* exclude_splits: None, [] or a list of one or two names
ExcludeLists ==
    {<<>>} \cup {<< <<>> >>}
        \cup { << <<a>> >> : a \in ExcludeNames }
        \cup { << <<a, b>> >> : a \in ExcludeNames, b \in ExcludeNames }

---------------------------------------------------------------------------
(* The objects the caller holds before any construction *)

None == 0

ChEmpty == 1
ChOne == 2
ChTwo == 3
ChLegacy == 4
ChStats == 5
ChSchema == 6

InitChannels ==
    << [type |-> "Examples", artifacts |-> <<>>],
       [type |-> "Examples", artifacts |-> <<1>>],
       [type |-> "Examples", artifacts |-> <<1, 2>>],
       [type |-> "Examples", artifacts |-> <<1>>],
       [type |-> "ExampleStatistics", artifacts |-> <<3>>],
       [type |-> "Schema", artifacts |-> <<4>>] >>

InitArtifacts ==
    << [type |-> "Examples", split_names |-> 1],
       [type |-> "Examples", split_names |-> 2],
       [type |-> "ExampleStatistics", split_names |-> 3],
       [type |-> "Schema", split_names |-> None] >>

\* tfdv.StatsOptions objects; generators stands for the callables to_json drops
StatsOptionsObjects ==
    << [num_top_values |-> 2, generators |-> TRUE],
       [num_top_values |-> 5, generators |-> FALSE] >>

\* StatsOptions.to_json: the serialized form, without the callables
to_json(o) == <<"json", StatsOptionsObjects[o].num_top_values>>

AllArgs ==
    [examples : {None, ChEmpty, ChOne, ChTwo},
     schema : {None, ChSchema},
     stats_options : {None, 1, 2},
     exclude_splits : ExcludeLists,
     output : {None, ChStats},
     input_data : {None, ChLegacy},
     instance_name : {"None"}]

RepeatArgs ==
    [examples : {None, ChOne, ChTwo},
     schema : {None},
     stats_options : {None},
     exclude_splits : ExcludeLists,
     output : {None, ChStats},
     input_data : {None},
     instance_name : {"None"}]

---------------------------------------------------------------------------
(* Pieces of the constructor *)

\* the legacy argument is never honoured
InputDataNever(input_data) == FALSE

\* line 85: `if input_data:` (a Channel is truthy, None is not)
InputDataGiven(input_data) == input_data # None

\* the output is derived even when one is passed
NotOutputAlways(out) == TRUE

\* line 91: `if not output:`
NotOutput(out) == out = None

\* artifact_utils.get_single_instance: the only element, or ValueError
get_single_instance(artifact_list) ==
    IF Len(artifact_list) = 1
    THEN [raised |-> "", value |-> artifact_list[1]]
    ELSE [raised |-> "ValueError", value |-> None]

\* the membership test is left out
ShouldRemoveNonEmpty(exclude_splits, split) ==
    /\ exclude_splits # <<>>
    /\ exclude_splits[1] # <<>>

\* line 96: `exclude_splits and split in exclude_splits`
ShouldRemove(exclude_splits, split) ==
    /\ exclude_splits # <<>>
    /\ exclude_splits[1] # <<>>
    /\ \E k \in 1..Len(exclude_splits[1]) : exclude_splits[1][k] = split

\* index of the first occurrence of x in l, 0 if there is none
RECURSIVE IndexFrom(_, _, _)
IndexFrom(l, x, k) ==
    IF k > Len(l) THEN 0
    ELSE IF l[k] = x THEN k
    ELSE IndexFrom(l, x, k + 1)

\* list.pop() in place of list.remove(x)
ListRemoveLast(l, x) == SubSeq(l, 1, Len(l) - 1)

\* line 97: list.remove(x) deletes the first occurrence of x
ListRemove(l, x) ==
    LET k == IndexFrom(l, x, 1)
    IN  IF k = 0 THEN l
        ELSE SubSeq(l, 1, k - 1) \o SubSeq(l, k + 1, Len(l))

\* the options are never serialized
StatsOptionsJsonDropped(stats_options) == <<>>

\* line 103: `stats_options.to_json() if stats_options else None`
StatsOptionsJson(stats_options) ==
    IF stats_options # None THEN <<to_json(stats_options)>> ELSE <<>>

\* lines 104-109: StatisticsGenSpec(...)
StatisticsGenSpec(ex, schema, stats_options_json, exclude_splits, statistics) ==
    [examples |-> ex,
     schema |-> schema,
     stats_options_json |-> stats_options_json,
     exclude_splits |-> exclude_splits,
     statistics |-> statistics]

---------------------------------------------------------------------------
(* The state after the caller has built its channels *)

Init ==
    /\ pc = "idle"
    /\ args = [examples |-> None, schema |-> None, stats_options |-> None,
               exclude_splits |-> <<>>, output |-> None, input_data |-> None,
               instance_name |-> "None"]
    /\ examples = None
    /\ output = None
    /\ statistics_artifact = None
    /\ split_names = None
    /\ it = 0
    /\ warnings = 0
    /\ error = ""
    /\ component = <<>>
    /\ \E S \in SplitSeqs :
          lists = <<S, <<"eval", "train">>, <<"train", "eval">> >>
    /\ artifacts = InitArtifacts
    /\ channels = InitChannels
    /\ pre = [lists |-> lists, artifacts |-> artifacts, channels |-> channels]
    /\ built = <<>>
    /\ ncalls = 0

\* StatisticsGen(...) is called with arguments a
Construct(A) ==
    /\ pc = "idle"
    /\ \E a \in A :
          /\ args' = a
          /\ examples' = a.examples
          /\ output' = a.output
    /\ statistics_artifact' = None
    /\ split_names' = None
    /\ it' = 0
    /\ warnings' = 0
    /\ error' = ""
    /\ component' = <<>>
    /\ pre' = [lists |-> lists, artifacts |-> artifacts, channels |-> channels]
    /\ ncalls' = ncalls + 1
    /\ pc' = "l85"
    /\ UNCHANGED <<lists, artifacts, channels, built>>

\* lines 85-90
ResolveAlias ==
    /\ pc = "l85"
    /\ IF InputDataGiven(args.input_data)
       THEN /\ warnings' = warnings + 1
            /\ examples' = args.input_data
       ELSE UNCHANGED <<warnings, examples>>
    /\ pc' = "l91"
    /\ UNCHANGED <<args, output, statistics_artifact, split_names, it, error,
                   component, lists, artifacts, channels, pre, built, ncalls>>

\* line 91, output given: the block is skipped
OutputGiven ==
    /\ pc = "l91"
    /\ ~NotOutput(output)
    /\ pc' = "l103"
    /\ UNCHANGED <<args, examples, output, statistics_artifact, split_names,
                   it, warnings, error, component, lists, artifacts, channels,
                   pre, built, ncalls>>

\* lines 91-92: statistics_artifact = standard_artifacts.ExampleStatistics()
NewStatisticsArtifact ==
    /\ pc = "l91"
    /\ NotOutput(output)
    /\ artifacts' = Append(artifacts,
                           [type |-> "ExampleStatistics", split_names |-> None])
    /\ statistics_artifact' = Len(artifacts) + 1
    /\ pc' = "l93"
    /\ UNCHANGED <<args, examples, output, split_names, it, warnings, error,
                   component, lists, channels, pre, built, ncalls>>

\* the first artifact of the channel is taken without get_single_instance
SingleInstanceFirst ==
    IF examples = None
    THEN [raised |-> "AttributeError", value |-> None]
    ELSE IF channels[examples].artifacts = <<>>
    THEN [raised |-> "IndexError", value |-> None]
    ELSE [raised |-> "", value |-> channels[examples].artifacts[1]]

\* what lines 93-94 evaluate to: examples.get() on None raises AttributeError
SingleInstance ==
    IF examples = None
    THEN [raised |-> "AttributeError", value |-> None]
    ELSE get_single_instance(channels[examples].artifacts)

\* lines 93-94, and the iterator of line 95 is created
GetSplitNames ==
    /\ pc = "l93"
    /\ SingleInstance.raised = ""
    /\ split_names' = artifacts[SingleInstance.value].split_names
    /\ it' = 0
    /\ pc' = "l95"
    /\ UNCHANGED <<args, examples, output, statistics_artifact, warnings,
                   error, component, lists, artifacts, channels, pre, built,
                   ncalls>>

\* lines 93-94 raise: nothing in the constructor catches
GetSplitNamesRaises ==
    /\ pc = "l93"
    /\ SingleInstance.raised # ""
    /\ error' = SingleInstance.raised
    /\ pc' = "raised"
    /\ UNCHANGED <<args, examples, output, statistics_artifact, split_names,
                   it, warnings, component, lists, artifacts, channels, pre,
                   built, ncalls>>

\* lines 95-97: one iteration of the loop over the list being mutated
LoopStep ==
    /\ pc = "l95"
    /\ it < Len(lists[split_names])
    /\ LET split == lists[split_names][it + 1]
       IN  lists' = IF ShouldRemove(args.exclude_splits, split)
                    THEN [lists EXCEPT
                            ![split_names] = ListRemove(lists[split_names], split)]
                    ELSE lists
    /\ it' = it + 1
    /\ UNCHANGED <<pc, args, examples, output, statistics_artifact,
                   split_names, warnings, error, component, artifacts,
                   channels, pre, built, ncalls>>

\* line 95 exhausted, then lines 98-101
LoopExit ==
    /\ pc = "l95"
    /\ it >= Len(lists[split_names])
    /\ artifacts' = [artifacts EXCEPT
                       ![statistics_artifact].split_names = split_names]
    /\ channels' = Append(channels,
                          [type |-> "ExampleStatistics",
                           artifacts |-> <<statistics_artifact>>])
    /\ output' = Len(channels) + 1
    /\ pc' = "l103"
    /\ UNCHANGED <<args, examples, statistics_artifact, split_names, it,
                   warnings, error, component, lists, pre, built, ncalls>>

\* the split names an ExampleStatistics channel's artifact holds
NamesOf(ch) == lists[artifacts[channels[ch].artifacts[1]].split_names]

\* lines 103-110: the spec is assembled and handed to BaseComponent.__init__
AssembleSpec ==
    /\ pc = "l103"
    /\ component' =
         << [spec |-> StatisticsGenSpec(examples, args.schema,
                                        StatsOptionsJson(args.stats_options),
                                        args.exclude_splits, output),
             instance_name |-> args.instance_name] >>
    /\ built' = Append(built,
                       [examples |-> examples,
                        exclude_splits |-> args.exclude_splits,
                        derived |-> args.output = None,
                        statistics |-> output,
                        names |-> IF output = None THEN <<>>
                                  ELSE NamesOf(output)])
    /\ pc' = "done"
    /\ UNCHANGED <<args, examples, output, statistics_artifact, split_names,
                   it, warnings, error, lists, artifacts, channels, pre,
                   ncalls>>

\* the caller goes on to construct another StatisticsGen
Again ==
    /\ pc \in {"done", "raised"}
    /\ ncalls < MaxCalls
    /\ pc' = "idle"
    /\ UNCHANGED <<args, examples, output, statistics_artifact, split_names,
                   it, warnings, error, component, lists, artifacts, channels,
                   pre, built, ncalls>>

Body ==
    \/ ResolveAlias
    \/ OutputGiven
    \/ NewStatisticsArtifact
    \/ GetSplitNames
    \/ GetSplitNamesRaises
    \/ LoopStep
    \/ LoopExit
    \/ AssembleSpec

Next == Construct(AllArgs) \/ Body

Spec == Init /\ [][Next]_vars

NextRepeat == Construct(RepeatArgs) \/ Body \/ Again

SpecRepeat == Init /\ [][NextRepeat]_vars

---------------------------------------------------------------------------
(* Vocabulary of the properties, over the arguments and the heaps as they  *)
(* were when the running construction began                                *)

Started == pc # "idle"

Derived == args.output = None

\* the channel the caller means by "the examples"
GivenExamples ==
    IF args.input_data # None THEN args.input_data ELSE args.examples

SingleInput ==
    /\ GivenExamples # None
    /\ Len(pre.channels[GivenExamples].artifacts) = 1

InputList == pre.artifacts[pre.channels[GivenExamples].artifacts[1]].split_names

\* S: the input artifact's split names before the construction
InputNames == pre.lists[InputList]

Excluded(n) ==
    /\ args.exclude_splits # <<>>
    /\ \E k \in 1..Len(args.exclude_splits[1]) : args.exclude_splits[1][k] = n

NotExcluded(n) == ~Excluded(n)

Kept(names) == SelectSeq(names, NotExcluded)

RECURSIVE IsSubsequence(_, _)
IsSubsequence(s, t) ==
    IF s = <<>> THEN TRUE
    ELSE IF t = <<>> THEN FALSE
    ELSE IF Head(s) = Head(t) THEN IsSubsequence(Tail(s), Tail(t))
    ELSE IsSubsequence(s, Tail(t))

TheSpec == component[1].spec

---------------------------------------------------------------------------
(* Properties *)

\* C1: a construction without explicit output returns with the output
\* artifact's split_names equal to the input split names with every
\* occurrence of every excluded name removed, the rest in order.
C1_OutputIsInputMinusExcluded ==
    (pc = "done" /\ Derived) => NamesOf(output) = Kept(InputNames)

\* C2: with an explicit output channel the spec's statistics is that channel,
\* the examples channel is never read (lines 93-94 are never reached and
\* nothing is raised), no artifact or channel is created and no list changes.
C2_ExplicitOutputVerbatim ==
    (Started /\ ~Derived) =>
        /\ pc \notin {"l93", "l95", "raised"}
        /\ error = ""
        /\ lists = pre.lists
        /\ artifacts = pre.artifacts
        /\ channels = pre.channels
        /\ output = args.output
        /\ pc = "done" => TheSpec.statistics = args.output

C2_Witness ==
    /\ pc = "done"
    /\ args.output = ChStats
    /\ args.examples = ChTwo
    /\ args.input_data = None
    /\ TheSpec.statistics = ChStats

\* C3: with input_data given and examples not, exactly one warning is logged
\* by the construction and the spec's examples is the input_data channel;
\* a construction without input_data logs no warning.
C3_LegacyAlias ==
    /\ (pc \in {"done", "raised"} /\ args.input_data # None
            /\ args.examples = None) =>
          /\ warnings = 1
          /\ pc = "done" => TheSpec.examples = args.input_data
    /\ (Started /\ args.input_data = None) => warnings = 0

C3_Witness ==
    /\ pc = "done"
    /\ args.input_data = ChLegacy
    /\ args.examples = None
    /\ warnings = 1
    /\ TheSpec.examples = ChLegacy

\* C4: without explicit output and with an examples channel that does not
\* hold exactly one artifact, the construction ends by raising the
\* ValueError of get_single_instance: it never gets past lines 93-94, no spec
\* is assembled and nothing is registered.
C4_CardinalityErrorPropagates ==
    (Started /\ Derived /\ GivenExamples # None /\ ~SingleInput) =>
        /\ pc \in {"l85", "l91", "l93", "raised"}
        /\ component = <<>>
        /\ pc = "raised" => error = "ValueError"
        /\ pc # "raised" => ENABLED Body

C4_Witness ==
    /\ pc = "raised"
    /\ error = "ValueError"
    /\ Derived
    /\ GivenExamples = ChTwo
    /\ component = <<>>

\* C5: without explicit output, when no name of exclude_splits occurs in the
\* input split names (exclude_splits None, empty or only unknown names), the
\* construction runs to its end without raising and without changing any
\* list, and the output artifact's split_names are the input split names.
C5_NoMatchIsNoOp ==
    (Started /\ Derived /\ SingleInput
        /\ \A k \in 1..Len(InputNames) : ~Excluded(InputNames[k])) =>
        /\ pc # "raised"
        /\ error = ""
        /\ lists = pre.lists
        /\ pc # "done" => ENABLED Body
        /\ pc = "done" => NamesOf(output) = InputNames

C5_Witness ==
    /\ pc = "done"
    /\ Derived
    /\ SingleInput
    /\ args.exclude_splits = << <<"holdout">> >>
    /\ Len(InputNames) = MaxLen
    /\ NamesOf(output) = InputNames

\* C6: the spec's stats_options_json is None when stats_options is omitted and
\* the to_json form of the object when it is given, whatever the other
\* arguments are.
C6_StatsOptionsJson ==
    pc = "done" =>
        TheSpec.stats_options_json =
            IF args.stats_options = None THEN <<>>
            ELSE << <<"json", StatsOptionsObjects[args.stats_options].num_top_values>> >>

C6_Witness ==
    /\ pc = "done"
    /\ args.stats_options = 1
    /\ TheSpec.stats_options_json = << <<"json", 2>> >>

\* C7: a construction without explicit output leaves every list the caller
\* held as it was, and the output artifact's split_names is not the list
\* object of the input artifact.
C7_InputNotMutated ==
    (Started /\ Derived) =>
        /\ lists = pre.lists
        /\ pc = "done" => artifacts[statistics_artifact].split_names # InputList

\* C8: after a construction without explicit output no excluded name occurs
\* in the output artifact's split_names.
C8_NoExcludedNameInOutput ==
    (pc = "done" /\ Derived) =>
        \A k \in 1..Len(NamesOf(output)) : ~Excluded(NamesOf(output)[k])

\* C9: the exclusion loop never removes or reorders a name that is not
\* excluded (the list it works on is a subsequence of the input split names
\* with the same non-excluded names in the same order), and it terminates:
\* the loop is never stuck and every iteration decreases the number of
\* elements the iterator has yet to visit.
C9_Safe ==
    (pc \in {"l95", "l103", "done"} /\ Derived) =>
        /\ Kept(lists[split_names]) = Kept(InputNames)
        /\ IsSubsequence(lists[split_names], InputNames)
        /\ pc = "l95" => ENABLED (LoopStep \/ LoopExit)
        /\ pc = "done" => NamesOf(output) = lists[split_names]

C9_Variant ==
    (pc = "l95" /\ pc' = "l95") =>
        /\ Len(lists'[split_names]) - it' < Len(lists[split_names]) - it
        /\ Len(lists[split_names]) - it > 0

C9_LoopKeepsTheRest == [] C9_Safe /\ [][C9_Variant]_vars

C9_Witness ==
    /\ pc = "done"
    /\ Derived
    /\ Len(InputNames) = MaxLen
    /\ Len(NamesOf(output)) = 1
    /\ \E k \in 1..Len(InputNames) : Excluded(InputNames[k])
    /\ \E k \in 1..Len(InputNames) : ~Excluded(InputNames[k])

\* C10: a construction without explicit output from the same examples
\* channel and with the same exclude_splits as an earlier one returns the
\* same output split_names, and leaves the earlier output artifact's
\* split_names as they were when the earlier construction returned.
C10_Repeatable ==
    \A i \in 1..Len(built) :
        built[i].derived =>
            /\ \A j \in (i + 1)..Len(built) :
                  (built[j].derived /\ built[j].examples = built[i].examples
                      /\ built[j].exclude_splits = built[i].exclude_splits)
                  => built[j].names = built[i].names
            /\ (Started /\ Derived /\ GivenExamples = built[i].examples
                    /\ args.exclude_splits = built[i].exclude_splits)
                  => NamesOf(built[i].statistics) = built[i].names

===========================================================================
